---- MODULE Spec2Model ----
(***************************************************************************)
(* Model of src/Falcon.py: class DroneClient (one simulated flight         *)
(* session).                                                               *)
(*                                                                         *)
(* Python floats are modelled as fixed-point integers:                     *)
(*   speed, altitude, x_position, y_position, total_distance : units of 1  *)
(*   battery                    : units of 1/BatteryScale percent          *)
(*   wind_speed, dust_level     : units of 1/EnvScale                      *)
(*   gyroscope                  : units of 1/10                            *)
(* Every call of random.uniform is a nondeterministic draw from a finite   *)
(* set of values of the interval (the *Draws sets below).                  *)
(*                                                                         *)
(* self.telemetry_history is only ever appended to and measured with       *)
(* len(); the model keeps its length (history_len) and the reading that    *)
(* was appended last (the variable telemetry).                             *)
(***************************************************************************)
EXTENDS Integers, Sequences, FiniteSets, TLC

VARIABLES
    self,             \* the DroneClient object: a record of its fields
    command,          \* run(): local `command`; API calls: argument / result
    telemetry,        \* run(): local `telemetry`; API calls: argument / result
    crash_predicted,  \* the value returned by the latest predict_crash call
    pc,               \* position in run(), or "api" when the methods are called directly
    last_op,          \* the method that executed last
    outcome           \* how run() ended: "RUNNING", "CRASHED", "EXHAUSTED"

vars == <<self, command, telemetry, crash_predicted, pc, last_op, outcome>>

----------------------------------------------------------------------------
(* Fixed-point scales and program constants                                *)

\* battery is stored in 1/160 percent: 160 * 1.5 * (speed/5 + 0.5*y/8 + u/10)
\* = 48*speed + 15*y + 24*u is then an integer for integer speed, y, u.
BatteryScale == 160

\* wind and dust are stored in fifths: 5 * U * (1 + speed/5) = U * (5 + speed).
EnvScale == 5

max_altitude == 8
safe_altitude == 2
RedCooldownReset == 5
FullBattery == 100 * BatteryScale
LowBatteryCrash == 15 * BatteryScale     \* predict_crash: battery < 15
PowerSaving == 50 * BatteryScale         \* send_command: battery < 50
CriticalBattery == 20 * BatteryScale     \* send_command: battery < 20
EnvMin == 40 * EnvScale
EnvMax == 100 * EnvScale
RedLevel == 80 * EnvScale
YellowLevel == 60 * EnvScale
TrendLevel == 10 * EnvScale

----------------------------------------------------------------------------
(* Bounds of the model                                                     *)

\* run(): max_iterations is drawn from 1..MaxIterations for either policy
MaxIterations == 3

\* run(): one longer session of the fixed-pattern policy, long enough for the
\* battery to reach 0 (the adaptive policy branches too widely for this length)
LongFlight == 70

\* run(): two long sessions of the adaptive policy.  random.uniform returns
\* fixed values (calm weather, full speed, climbing) until CalmToHalf or
\* CalmToCritical iterations are done, which brings the battery close to 50
\* and to 20 percent; it is unconstrained in the FreeIterations that follow.
CalmToHalf == 14
CalmToCritical == 31
FreeIterations == 3

----------------------------------------------------------------------------
(* Values drawn for random.uniform                                         *)

\* random.uniform(0.1, 0.5) in battery_drain, in tenths
JitterDraws == {1, 5}
\* random.uniform(-20.0, 20.0) in wind_speed (multiples of 5 keep fifths exact)
WindDraws == {-20, 0, 20}
\* random.uniform(-30.0, 30.0) in dust_level (multiples of 10 keep fifths exact)
DustDraws == {-30, 0, 30}
\* the three random.uniform(-0.5, 0.5) of gyroscope, in tenths
GyroDraws == {<<-5, 2, 5>>}
\* random.uniform(3.0, 7.0) in send_command
SpeedDraws == {3, 7}
\* random.uniform(-2.0, 2.0) in send_command
AltitudeDraws == {-2, 1, 2}

EnvDraws == [jitter : JitterDraws, wind : WindDraws, dust : DustDraws, gyro : GyroDraws]
PolicyDraws == [speed : SpeedDraws, altitude : AltitudeDraws, altitude2 : AltitudeDraws]

\* the draws of the calm part of a long adaptive session
CalmEnvDraws == [jitter : {5}, wind : {0}, dust : {0}, gyro : GyroDraws]
CalmPolicyDraws == [speed : {7}, altitude : {2}, altitude2 : {2}]

\* max_iterations of the long adaptive sessions
LongSessions == {CalmToHalf + FreeIterations, CalmToCritical + FreeIterations}

\* the object is in the calm part of a long adaptive session when its next
\* reading (after = 0) or the decision on its latest reading (after = 1) is
\* among the first max_iterations - FreeIterations
Calm(s, after) ==
    /\ ~s.use_constant_runner
    /\ s.max_iterations \in LongSessions
    /\ s.iterations + 1 - after <= s.max_iterations - FreeIterations

----------------------------------------------------------------------------
(* Helpers                                                                 *)

Min(a, b) == IF b < a THEN b ELSE a
Max(a, b) == IF b > a THEN b ELSE a

\* a command dict; non_numeric is the set of keys whose value is not an
\* int/float, too_large the set of keys whose value is an int beyond the range
\* of a float (float + int and float * int then raise OverflowError); is_dict
\* is false for an argument that is no dict at all (None)
Command(speed, altitude, movement) ==
    [speed |-> speed, altitude |-> altitude, movement |-> movement,
     non_numeric |-> {}, too_large |-> {}, is_dict |-> TRUE]

\* mutant of LandingCommand: the drone is stopped where it is
LandingCommandHover(s) == Command(0, 0, "fwd")

\* {"speed": 0.0, "altitude": -self.y_position, "movement": "fwd"}
LandingCommand(s) == Command(0, -s.y_position, "fwd")

NoCommand == Command(0, 0, "none")

NoTelemetry ==
    [x_position |-> 0, y_position |-> 0, battery |-> 0, gyroscope |-> <<0, 0, 0>>,
     wind_speed |-> 0, dust_level |-> 0, sensor_status |-> "NONE"]

\* DroneClient.__init__
Construct(n, ucr) ==
    [x_position |-> 0, y_position |-> 0, battery |-> FullBattery, iterations |-> 0,
     total_distance |-> 0, red_cooldown |-> 0, previous_status |-> "GREEN",
     previous_dust |-> 0, previous_wind |-> 0, max_iterations |-> n,
     use_constant_runner |-> ucr, history_len |-> 0]

----------------------------------------------------------------------------
(* DroneClient.constant_runner: the fixed-pattern policy.  The argument is *)
(* a history; only len(telemetry) is read.                                 *)

\* mutant of constant_runner: the odd and even commands are exchanged
constant_runner_swapped(telemetry_len) ==
    LET initial  == Command(4, 5, "fwd")
        nextodd  == Command(4, -1, "fwd")
        nexteven == Command(4, 1, "fwd")
    IN  IF telemetry_len = 0 THEN initial
        ELSE IF telemetry_len % 2 # 0 THEN nexteven ELSE nextodd

\* mutant of constant_runner: the parity test always takes the even branch
constant_runner_climbing(telemetry_len) ==
    LET initial  == Command(4, 5, "fwd")
        nexteven == Command(4, 1, "fwd")
    IN  IF telemetry_len = 0 THEN initial ELSE nexteven

constant_runner(telemetry_len) ==
    LET initial  == Command(4, 5, "fwd")
        nextodd  == Command(4, -1, "fwd")
        nexteven == Command(4, 1, "fwd")
    IN  IF telemetry_len = 0 THEN initial
        ELSE IF telemetry_len % 2 # 0 THEN nextodd ELSE nexteven

----------------------------------------------------------------------------
(* DroneClient.generate_telemetry                                          *)

\* mutant of SensorStatus: >= in place of > at both thresholds
SensorStatusInclusive(dust_level, wind_speed) ==
    IF dust_level >= RedLevel \/ wind_speed >= RedLevel THEN "RED"
    ELSE IF dust_level >= YellowLevel \/ wind_speed >= YellowLevel THEN "YELLOW"
    ELSE "GREEN"

\* lines 93-98: sensor status from dust and wind, RED tested first
SensorStatus(dust_level, wind_speed) ==
    IF dust_level > RedLevel \/ wind_speed > RedLevel THEN "RED"
    ELSE IF dust_level > YellowLevel \/ wind_speed > YellowLevel THEN "YELLOW"
    ELSE "GREEN"

\* mutant of ValidSpeed: a negative speed is negated instead of zeroed
ValidSpeedAbsolute(cmd) ==
    IF "speed" \in cmd.non_numeric THEN 0
    ELSE IF cmd.speed < 0 THEN 0 - cmd.speed ELSE cmd.speed

\* mutant of ValidSpeed: the speed < 0 test is missing
ValidSpeedKeepsNegative(cmd) ==
    IF "speed" \in cmd.non_numeric THEN 0 ELSE cmd.speed

\* lines 54-57: a non-numeric or negative speed becomes 0.0
ValidSpeed(cmd) ==
    IF "speed" \in cmd.non_numeric \/ cmd.speed < 0 THEN 0 ELSE cmd.speed

\* lines 58-60: a non-numeric altitude becomes 0.0
ValidAltitude(cmd) ==
    IF "altitude" \in cmd.non_numeric THEN 0 ELSE cmd.altitude

\* mutant of ClampAltitude: the min(..., max_altitude) is missing
ClampAltitudeNoCeiling(y) == Max(y, 0)

\* line 66 and line 140: min(max(y + altitude, 0.0), max_altitude)
ClampAltitude(y) == Min(Max(y, 0), max_altitude)

\* lines 70-72: 1.5 * (speed/5 + 0.5*y/8 + uniform(0.1, 0.5)), in 1/160 percent
BatteryDrain(speed, y, jitter) == 48 * speed + 15 * y + 24 * jitter

\* lines 76-83, in fifths
WindSpeed(previous_wind, speed, draw) ==
    Min(EnvMax, Max(EnvMin, previous_wind + draw * (5 + speed)))

\* lines 84-91, in fifths: 5 * draw * (1 + wind/50) = draw * (250 + 5*wind) / 50
DustLevel(previous_dust, wind_speed, draw) ==
    Min(EnvMax, Max(EnvMin, previous_dust + (draw * (50 * EnvScale + wind_speed)) \div 50))

\* lines 119-129: the reading returned by the except branch, built from the
\* fields of the object as the statements before the fault left them; nothing
\* is appended to telemetry_history
FaultReading(s) ==
    [self |-> s,
     telemetry |-> [x_position |-> s.x_position, y_position |-> s.y_position,
                    battery |-> s.battery, gyroscope |-> <<0, 0, 0>>,
                    wind_speed |-> 0, dust_level |-> 0, sensor_status |-> "RED"]]

\* The statement of the try block that raises, as a line number, or 0:
\*   50  command.get on an argument that is not a dict
\*   64  self.x_position += speed, speed an int too large for a float
\*   66  self.y_position + altitude, altitude an int too large for a float
\*   71  1.0 * speed, speed an int too large for a float
\* (a negative speed, however large, was replaced by 0.0 at line 57)
FaultLine(cmd) ==
    IF ~cmd.is_dict THEN 50
    ELSE LET large_speed == /\ "speed" \in cmd.too_large
                            /\ "speed" \notin cmd.non_numeric
                            /\ cmd.speed > 0
         IN  IF large_speed /\ cmd.movement = "fwd" THEN 64
             ELSE IF "altitude" \in cmd.too_large /\ "altitude" \notin cmd.non_numeric THEN 66
             ELSE IF large_speed THEN 71
             ELSE 0

\* The whole method: the new object state and the reading returned.  d holds
\* the values drawn by random.uniform.
generate_telemetry(s, cmd, d) ==
    LET fault    == FaultLine(cmd)
        counted  == [s EXCEPT !.iterations = @ + 1]
    IN
    IF fault \in {50, 64} THEN FaultReading(counted)
    ELSE
    LET speed    == ValidSpeed(cmd)
        altitude == ValidAltitude(cmd)
        moves    == cmd.movement = "fwd" /\ speed > 0
        x        == IF moves THEN s.x_position + speed ELSE s.x_position
        dist     == IF moves THEN s.total_distance + speed ELSE s.total_distance
        y        == ClampAltitude(s.y_position + altitude)
    IN
    IF fault = 66
    THEN FaultReading([counted EXCEPT !.x_position = x, !.total_distance = dist])
    ELSE IF fault = 71
    THEN FaultReading([counted EXCEPT !.y_position = y])
    ELSE
    LET battery  == Max(0, s.battery - BatteryDrain(speed, y, d.jitter))
        wind     == WindSpeed(s.previous_wind, speed, d.wind)
        dust     == DustLevel(s.previous_dust, wind, d.dust)
        reading  == [x_position |-> x, y_position |-> y, battery |-> battery,
                     gyroscope |-> d.gyro, wind_speed |-> wind, dust_level |-> dust,
                     sensor_status |-> SensorStatus(dust, wind)]
    IN  [self |-> [s EXCEPT !.iterations = @ + 1,
                            !.x_position = x,
                            !.total_distance = dist,
                            !.y_position = y,
                            !.battery = battery,
                            !.history_len = @ + 1],
         telemetry |-> reading]

----------------------------------------------------------------------------
(* DroneClient.predict_crash                                               *)

\* mutant of predict_crash: the low-battery check is missing
predict_crash_without_battery(s, cmd, tel) ==
    IF ~cmd.is_dict \/ "altitude" \in cmd.non_numeric \/ "altitude" \in cmd.too_large
    THEN TRUE
    ELSE
    LET predicted_y_position == ClampAltitude(s.y_position + cmd.altitude)
    IN  IF /\ predicted_y_position > safe_altitude
           /\ \/ tel.sensor_status = "RED"
              \/ s.previous_status = "RED"
              \/ s.red_cooldown > 0
        THEN TRUE
        ELSE predicted_y_position > max_altitude

\* mutant of predict_crash: the red_cooldown > 0 test is missing
predict_crash_without_cooldown(s, cmd, tel) ==
    IF ~cmd.is_dict \/ "altitude" \in cmd.non_numeric \/ "altitude" \in cmd.too_large
    THEN TRUE
    ELSE
    LET predicted_y_position == ClampAltitude(s.y_position + cmd.altitude)
    IN  IF /\ predicted_y_position > safe_altitude
           /\ \/ tel.sensor_status = "RED"
              \/ s.previous_status = "RED"
        THEN TRUE
        ELSE IF predicted_y_position > max_altitude
        THEN TRUE
        ELSE IF tel.battery < LowBatteryCrash
        THEN IF "speed" \in cmd.non_numeric
             THEN TRUE
             ELSE cmd.speed > 0
        ELSE FALSE

predict_crash(s, cmd, tel) ==
    IF ~cmd.is_dict \/ "altitude" \in cmd.non_numeric \/ "altitude" \in cmd.too_large
    THEN TRUE    \* command.get or y_position + altitude raises: except branch, line 161
    ELSE
    LET predicted_y_position == ClampAltitude(s.y_position + cmd.altitude)
    IN  IF /\ predicted_y_position > safe_altitude
           /\ \/ tel.sensor_status = "RED"
              \/ s.previous_status = "RED"
              \/ s.red_cooldown > 0
        THEN TRUE
        ELSE IF predicted_y_position > max_altitude
        THEN TRUE
        ELSE IF tel.battery < LowBatteryCrash
        THEN IF "speed" \in cmd.non_numeric
             THEN TRUE    \* speed > 0 raises: except branch, line 161
             ELSE cmd.speed > 0
        ELSE FALSE

\* The return statement that ends a predict_crash call, as a line number:
\* 151 (unsafe altitude with RED), 154 (above max_altitude), 157 (low battery
\* with movement), 158 (no crash) or 161 (the except branch)
PredictCrashReturn(s, cmd, tel) ==
    IF ~cmd.is_dict \/ "altitude" \in cmd.non_numeric \/ "altitude" \in cmd.too_large
    THEN 161
    ELSE
    LET predicted_y_position == ClampAltitude(s.y_position + cmd.altitude)
    IN  IF /\ predicted_y_position > safe_altitude
           /\ \/ tel.sensor_status = "RED"
              \/ s.previous_status = "RED"
              \/ s.red_cooldown > 0
        THEN 151
        ELSE IF predicted_y_position > max_altitude
        THEN 154
        ELSE IF tel.battery < LowBatteryCrash
        THEN IF "speed" \in cmd.non_numeric
             THEN 161
             ELSE IF cmd.speed > 0 THEN 157 ELSE 158
        ELSE 158

----------------------------------------------------------------------------
(* DroneClient.send_command: the adaptive policy                           *)

\* mutant of StatusBranch: the YELLOW branch decrements without max(0, ...)
StatusBranchUnclamped(s, tel, d) ==
    IF tel.sensor_status = "RED"
    THEN [command |-> LandingCommand(s), red_cooldown |-> RedCooldownReset]
    ELSE IF tel.sensor_status = "YELLOW"
    THEN [command |-> Command(3, Min(d.altitude, safe_altitude - s.y_position), "fwd"),
          red_cooldown |-> s.red_cooldown - 1]
    ELSE IF s.red_cooldown > 0
    THEN [command |-> Command(3, Min(d.altitude, safe_altitude - s.y_position), "fwd"),
          red_cooldown |-> s.red_cooldown - 1]
    ELSE [command |-> Command(d.speed, d.altitude2, "fwd"),
          red_cooldown |-> s.red_cooldown]

\* lines 178-194: the if/elif chain on the sensor status.  Returns the
\* command and the new red_cooldown.
StatusBranch(s, tel, d) ==
    IF tel.sensor_status = "RED"
    THEN [command |-> LandingCommand(s), red_cooldown |-> RedCooldownReset]
    ELSE IF tel.sensor_status = "YELLOW"
    THEN [command |-> Command(3, Min(d.altitude, safe_altitude - s.y_position), "fwd"),
          red_cooldown |-> Max(0, s.red_cooldown - 1)]
    ELSE IF s.red_cooldown > 0
    THEN [command |-> Command(3, Min(d.altitude, safe_altitude - s.y_position), "fwd"),
          red_cooldown |-> s.red_cooldown - 1]
    ELSE [command |-> Command(d.speed, d.altitude2, "fwd"),
          red_cooldown |-> s.red_cooldown]

\* mutant of TrendOverride: the speed is set to 3.0 instead of capped at 3.0
TrendOverrideSetsSpeed(s, tel, cmd) ==
    LET dust_trend == tel.dust_level - s.previous_dust
        wind_trend == tel.wind_speed - s.previous_wind
    IN  IF dust_trend > TrendLevel \/ wind_trend > TrendLevel
        THEN [cmd EXCEPT !.speed = 3,
                         !.altitude = Min(@, safe_altitude - s.y_position)]
        ELSE cmd

\* lines 196-200: clamp when dust or wind rose by more than 10
TrendOverride(s, tel, cmd) ==
    LET dust_trend == tel.dust_level - s.previous_dust
        wind_trend == tel.wind_speed - s.previous_wind
    IN  IF dust_trend > TrendLevel \/ wind_trend > TrendLevel
        THEN [cmd EXCEPT !.speed = Min(@, 3),
                         !.altitude = Min(@, safe_altitude - s.y_position)]
        ELSE cmd

\* mutant of BatteryOverride: power saving caps the speed only
BatteryOverrideSpeedOnly(s, tel, cmd) ==
    LET saving == IF tel.battery < PowerSaving
                  THEN [cmd EXCEPT !.speed = Min(@, 3)]
                  ELSE cmd
    IN  IF tel.battery < CriticalBattery THEN LandingCommand(s) ELSE saving

\* mutant of BatteryOverride: the battery < 20 landing is missing
BatteryOverrideNoCritical(s, tel, cmd) ==
    IF tel.battery < PowerSaving
    THEN [cmd EXCEPT !.speed = Min(@, 3),
                     !.altitude = Min(@, 2 - s.y_position)]
    ELSE cmd

\* lines 202-209: battery management
BatteryOverride(s, tel, cmd) ==
    LET saving == IF tel.battery < PowerSaving
                  THEN [cmd EXCEPT !.speed = Min(@, 3),
                                   !.altitude = Min(@, 2 - s.y_position)]
                  ELSE cmd
    IN  IF tel.battery < CriticalBattery THEN LandingCommand(s) ELSE saving

\* mutant of SafetyGate: the prediction is ignored
SafetyGateOpen(s, cmd, tel) == cmd

\* lines 211-214 and 265-267: a command predicted to crash becomes the landing command
SafetyGate(s, cmd, tel) ==
    IF predict_crash(s, cmd, tel) THEN LandingCommand(s) ELSE cmd

\* The whole method: the new object state and the command returned.
send_command(s, tel, d) ==
    LET branch   == StatusBranch(s, tel, d)
        s1       == [s EXCEPT !.red_cooldown = branch.red_cooldown]
        trended  == TrendOverride(s, tel, branch.command)
        managed  == BatteryOverride(s, tel, trended)
        final    == SafetyGate(s1, managed, tel)
    IN  [self |-> [s1 EXCEPT !.previous_status = tel.sensor_status,
                             !.previous_dust = tel.dust_level,
                             !.previous_wind = tel.wind_speed],
         command |-> final]

----------------------------------------------------------------------------
(* DroneClient.run: the session loop on a freshly constructed object       *)

\* mutant of CrashCheck: >= in place of > on the altitude
CrashCheckAtSafeAltitude(s, tel) ==
    /\ tel.y_position >= safe_altitude
    /\ \/ tel.sensor_status = "RED"
       \/ s.previous_status = "RED"

\* lines 241-247: the crash check on the reading just generated
CrashCheck(s, tel) ==
    /\ tel.y_position > safe_altitude
    /\ \/ tel.sensor_status = "RED"
       \/ s.previous_status = "RED"

\* mutant of LoopCondition: the iteration cap is missing
LoopConditionNoCap(s) == s.battery > 0

\* mutant of LoopCondition: <= in place of <
LoopConditionOffByOne(s) == s.battery > 0 /\ s.iterations <= s.max_iterations

\* line 233: the loop condition
LoopCondition(s) == s.battery > 0 /\ s.iterations < s.max_iterations

Init ==
    /\ \/ \E n \in 1..MaxIterations, ucr \in BOOLEAN : self = Construct(n, ucr)
       \/ self = Construct(LongFlight, TRUE)
    /\ command = NoCommand
    /\ telemetry = NoTelemetry
    /\ crash_predicted = FALSE
    /\ pc = "start"
    /\ last_op = "__init__"
    /\ outcome = "RUNNING"

\* lines 229-231: the initial command
RunStart ==
    /\ pc = "start"
    /\ command' = Command(5, 0, "fwd")
    /\ pc' = "while"
    /\ last_op' = "run"
    /\ UNCHANGED <<self, telemetry, crash_predicted, outcome>>

\* lines 233-238: the loop condition holds; one reading for the current command
RunGenerate ==
    /\ pc = "while"
    /\ LoopCondition(self)
    /\ \E d \in (IF Calm(self, 0) THEN CalmEnvDraws ELSE EnvDraws) :
          LET r == generate_telemetry(self, command, d)
          IN  /\ self' = r.self
              /\ telemetry' = r.telemetry
    /\ pc' = "check"
    /\ last_op' = "generate_telemetry"
    /\ UNCHANGED <<command, crash_predicted, outcome>>

\* line 233: the loop condition fails; lines 276-281
RunExit ==
    /\ pc = "while"
    /\ ~LoopCondition(self)
    /\ pc' = "done"
    /\ outcome' = "EXHAUSTED"
    /\ last_op' = "run"
    /\ UNCHANGED <<self, command, telemetry, crash_predicted>>

\* lines 241-260: the crash check holds; break
RunCrash ==
    /\ pc = "check"
    /\ CrashCheck(self, telemetry)
    /\ pc' = "done"
    /\ outcome' = "CRASHED"
    /\ last_op' = "run"
    /\ UNCHANGED <<self, command, telemetry, crash_predicted>>

\* lines 263-268: the fixed-pattern policy, gated by predict_crash
RunConstantRunner ==
    /\ pc = "check"
    /\ ~CrashCheck(self, telemetry)
    /\ self.use_constant_runner
    /\ LET cmd == constant_runner(self.history_len)
       IN  /\ crash_predicted' = predict_crash(self, cmd, telemetry)
           /\ command' = SafetyGate(self, cmd, telemetry)
    /\ pc' = "while"
    /\ last_op' = "constant_runner"
    /\ UNCHANGED <<self, telemetry, outcome>>

\* lines 269-270: the adaptive policy
RunSendCommand ==
    /\ pc = "check"
    /\ ~CrashCheck(self, telemetry)
    /\ ~self.use_constant_runner
    /\ \E d \in (IF Calm(self, 1) THEN CalmPolicyDraws ELSE PolicyDraws) :
          LET r == send_command(self, telemetry, d)
          IN  /\ self' = r.self
              /\ command' = r.command
    /\ pc' = "while"
    /\ last_op' = "send_command"
    /\ UNCHANGED <<telemetry, crash_predicted, outcome>>

Next ==
    \/ RunStart
    \/ RunGenerate
    \/ RunExit
    \/ RunCrash
    \/ RunConstantRunner
    \/ RunSendCommand

Spec == Init /\ [][Next]_vars

\* run() is sequential code: whenever a step is possible, one is taken
FairSpec == Spec /\ WF_vars(Next)

\* run() on the long sessions: both adaptive ones and the fixed-pattern one
InitLong ==
    /\ \/ \E n \in LongSessions : self = Construct(n, FALSE)
       \/ self = Construct(LongFlight, TRUE)
    /\ command = NoCommand
    /\ telemetry = NoTelemetry
    /\ crash_predicted = FALSE
    /\ pc = "start"
    /\ last_op = "__init__"
    /\ outcome = "RUNNING"

SpecLong == InitLong /\ [][Next]_vars

----------------------------------------------------------------------------
(* generate_telemetry called directly on a constructed object, up to      *)
(* MaxApiCalls times, with commands of the caller's choosing; between the  *)
(* calls constant_runner may be asked for a command on the object's own    *)
(* history, as run() does.                                                 *)

\* generate_telemetry is called at most this many times
MaxApiCalls == 3

\* commands a caller passes to generate_telemetry and predict_crash
ApiCommands ==
    {Command(5, 3, "fwd"),       \* climb
     Command(5, 9, "fwd"),       \* climb past max_altitude
     Command(0, -9, "fwd"),      \* descend past the ground, no speed
     Command(-3, 1, "fwd"),      \* negative speed
     Command(400, 0, "fwd"),     \* a speed that drains the whole battery
     Command(5, -1, "back"),     \* movement other than "fwd"
     [Command(0, 1, "fwd") EXCEPT !.non_numeric = {"speed"}],
     [Command(5, 0, "fwd") EXCEPT !.non_numeric = {"altitude"}]}

InitTelemetry ==
    /\ self = Construct(1, FALSE)
    /\ command = NoCommand
    /\ telemetry = NoTelemetry
    /\ crash_predicted = FALSE
    /\ pc = "api"
    /\ last_op = "__init__"
    /\ outcome = "RUNNING"

\* telemetry = drone.generate_telemetry(cmd)
CallGenerateTelemetry ==
    /\ pc = "api"
    /\ self.iterations < MaxApiCalls
    /\ \E cmd \in ApiCommands, d \in EnvDraws :
          LET r == generate_telemetry(self, cmd, d)
          IN  /\ self' = r.self
              /\ telemetry' = r.telemetry
              /\ command' = cmd
    /\ last_op' = "generate_telemetry"
    /\ UNCHANGED <<crash_predicted, pc, outcome>>

\* command = drone.constant_runner(drone.telemetry_history)
CallConstantRunner ==
    /\ pc = "api"
    /\ command' = constant_runner(self.history_len)
    /\ last_op' = "constant_runner"
    /\ UNCHANGED <<self, telemetry, crash_predicted, pc, outcome>>

NextTelemetry ==
    \/ CallGenerateTelemetry
    \/ CallConstantRunner

SpecTelemetry == InitTelemetry /\ [][NextTelemetry]_vars

----------------------------------------------------------------------------
(* generate_telemetry called directly, up to MaxFaultCalls times, with     *)
(* arguments that are not well-formed commands as well.                    *)

\* generate_telemetry is called at most this many times in SpecFaults
MaxFaultCalls == 2

\* further arguments a caller passes to generate_telemetry: no dict at all,
\* ints beyond the range of a float (10**400), and a non-numeric altitude
EdgeCommands ==
    {[Command(0, 0, "fwd") EXCEPT !.is_dict = FALSE],
     [Command(5, 1, "fwd") EXCEPT !.too_large = {"altitude"}],
     [Command(1, 3, "back") EXCEPT !.too_large = {"speed"}],
     [Command(1, 3, "fwd") EXCEPT !.too_large = {"speed"}],
     [Command(-1, 3, "fwd") EXCEPT !.too_large = {"speed"}],
     [Command(-3, 3, "fwd") EXCEPT !.non_numeric = {"altitude"}]}

\* telemetry = drone.generate_telemetry(cmd), any argument
CallGenerateTelemetryAny ==
    /\ pc = "api"
    /\ self.iterations < MaxFaultCalls
    /\ \E cmd \in ApiCommands \cup EdgeCommands, d \in EnvDraws :
          LET r == generate_telemetry(self, cmd, d)
          IN  /\ self' = r.self
              /\ telemetry' = r.telemetry
              /\ command' = cmd
    /\ last_op' = "generate_telemetry"
    /\ UNCHANGED <<crash_predicted, pc, outcome>>

NextFaults == CallGenerateTelemetryAny

SpecFaults == InitTelemetry /\ [][NextFaults]_vars

----------------------------------------------------------------------------
(* send_command and predict_crash called directly on an object whose      *)
(* altitude a test has set, with readings and commands of the caller's     *)
(* choosing: any sequence of send_command calls, then one call of          *)
(* predict_crash.  predict_crash changes no field of the object, so the    *)
(* calls that could follow it start from object states already covered.    *)

\* altitudes the object is at when the decision methods are called
ApiAltitudes == {0, 1, 2, 3, max_altitude}

\* battery values of the readings a caller passes: around 15, 20 and 50 percent
ApiBatteries ==
    {10 * BatteryScale, LowBatteryCrash, CriticalBattery, PowerSaving - 1, PowerSaving}

\* (dust_level, wind_speed) of those readings: GREEN, GREEN with dust more
\* than 10 above that, YELLOW at wind 60.2 and RED at dust 80.2
ApiEnvironments ==
    {<<40 * EnvScale, 40 * EnvScale>>, <<52 * EnvScale + 1, 40 * EnvScale>>,
     <<YellowLevel, YellowLevel + 1>>, <<RedLevel + 1, RedLevel>>}

\* readings a caller passes to predict_crash and send_command
ApiTelemetry ==
    {[x_position |-> 0, y_position |-> 0, battery |-> b, gyroscope |-> <<0, 0, 0>>,
      wind_speed |-> e[2], dust_level |-> e[1],
      sensor_status |-> SensorStatus(e[1], e[2])] :
        b \in ApiBatteries, e \in ApiEnvironments}

InitApi ==
    /\ \E y \in ApiAltitudes : self = [Construct(1, FALSE) EXCEPT !.y_position = y]
    /\ command = NoCommand
    /\ telemetry = NoTelemetry
    /\ crash_predicted = FALSE
    /\ pc = "api"
    /\ last_op = "__init__"
    /\ outcome = "RUNNING"

\* crash_predicted = drone.predict_crash(cmd, tel)
CallPredictCrash ==
    /\ pc = "api"
    /\ \E cmd \in ApiCommands, tel \in ApiTelemetry :
          /\ crash_predicted' = predict_crash(self, cmd, tel)
          /\ command' = cmd
          /\ telemetry' = tel
    /\ last_op' = "predict_crash"
    /\ pc' = "returned"
    /\ UNCHANGED <<self, outcome>>

\* command = drone.send_command(tel)
CallSendCommand ==
    /\ pc = "api"
    /\ \E tel \in ApiTelemetry, d \in PolicyDraws :
          LET r == send_command(self, tel, d)
          IN  /\ self' = r.self
              /\ command' = r.command
              /\ telemetry' = tel
    /\ last_op' = "send_command"
    /\ UNCHANGED <<crash_predicted, pc, outcome>>

NextApi ==
    \/ CallPredictCrash
    \/ CallSendCommand

SpecApi == InitApi /\ [][NextApi]_vars

----------------------------------------------------------------------------
(* generate_telemetry called on an object whose previous_dust and          *)
(* previous_wind sit on and next to the status thresholds: send_command is *)
(* called once on a reading with such values (lines 218-219 store them),   *)
(* then generate_telemetry up to MaxStatusCalls times.  A draw of 0 for    *)
(* wind or dust reproduces the stored value in the new reading.            *)

\* generate_telemetry is called at most this many times in SpecStatus
MaxStatusCalls == 2

\* 59, 60, 61, 80 and 81, in fifths
BoundaryLevels == {59 * EnvScale, 60 * EnvScale, 61 * EnvScale, 80 * EnvScale, 81 * EnvScale}

\* readings whose dust_level and wind_speed are boundary levels
BoundaryTelemetry ==
    {[x_position |-> 0, y_position |-> 0, battery |-> FullBattery,
      gyroscope |-> <<0, 0, 0>>, wind_speed |-> w, dust_level |-> u,
      sensor_status |-> SensorStatus(u, w)] :
        u \in BoundaryLevels, w \in BoundaryLevels}

\* commands of the generate_telemetry calls in SpecStatus
StatusCommands == {Command(0, 0, "fwd"), Command(5, 1, "fwd")}

\* command = drone.send_command(tel), as the first call on the object
CallSendCommandFirst ==
    /\ pc = "api"
    /\ last_op = "__init__"
    /\ \E tel \in BoundaryTelemetry, d \in PolicyDraws :
          LET r == send_command(self, tel, d)
          IN  /\ self' = r.self
              /\ command' = r.command
              /\ telemetry' = tel
    /\ last_op' = "send_command"
    /\ UNCHANGED <<crash_predicted, pc, outcome>>

\* telemetry = drone.generate_telemetry(cmd), after that send_command call
CallGenerateTelemetryNext ==
    /\ pc = "api"
    /\ last_op # "__init__"
    /\ self.iterations < MaxStatusCalls
    /\ \E cmd \in StatusCommands, d \in EnvDraws :
          LET r == generate_telemetry(self, cmd, d)
          IN  /\ self' = r.self
              /\ telemetry' = r.telemetry
              /\ command' = cmd
    /\ last_op' = "generate_telemetry"
    /\ UNCHANGED <<crash_predicted, pc, outcome>>

NextStatus ==
    \/ CallSendCommandFirst
    \/ CallGenerateTelemetryNext

SpecStatus == InitTelemetry /\ [][NextStatus]_vars

----------------------------------------------------------------------------
(* Claims                                                                  *)

\* C1: after any sequence of generate_telemetry calls with arbitrary commands
\* the altitude of the session, and the altitude every reading reports, is
\* within [0, max_altitude] (8): an altitude above 8 is never observable.
C1_AltitudeWithinRange ==
    /\ self.y_position >= 0
    /\ self.y_position <= 8
    /\ last_op = "generate_telemetry" =>
          /\ telemetry.y_position >= 0
          /\ telemetry.y_position <= 8

\* C1 witness: a climb of 9 from an altitude above 0 was cut at 8
C1_Witness ==
    /\ last_op = "generate_telemetry"
    /\ command = Command(5, 9, "fwd")
    /\ self.iterations = 2
    /\ telemetry.y_position = 8

\* C2: the battery is within [0, 100] in every reachable state, and no
\* generate_telemetry step, whatever its command (negative and non-numeric
\* speeds included), leaves the battery higher than it found it.
C2_BatteryNeverRises ==
    /\ [](self.battery >= 0 /\ self.battery <= 100 * BatteryScale)
    /\ [][self'.battery <= self.battery]_vars

\* C2 witness: a reading for a command with a negative speed, battery drained
C2_Witness ==
    /\ last_op = "generate_telemetry"
    /\ command.speed < 0
    /\ self.battery < FullBattery
    /\ telemetry.battery = self.battery

\* C3: for every max_iterations = N > 0 and either policy, run() ends after at
\* most N telemetry cycles, iterations growing by exactly 1 per cycle and by
\* nothing else; when it ends without a crash, battery = 0 or iterations = N.
C3_RunTerminates ==
    /\ [](self.iterations <= self.max_iterations)
    /\ [][IF pc = "while" /\ pc' = "check"
          THEN self'.iterations = self.iterations + 1
          ELSE self'.iterations = self.iterations]_vars
    /\ [](pc = "done" /\ outcome = "EXHAUSTED" =>
            self.battery = 0 \/ self.iterations = self.max_iterations)
    /\ <>(pc = "done")

\* C3 witness: a session that ended on an empty battery before its cap
C3_Witness ==
    /\ pc = "done"
    /\ outcome = "EXHAUSTED"
    /\ self.battery = 0
    /\ self.iterations < self.max_iterations

\* C4: a session with max_iterations = 1 performs exactly one cycle (one
\* reading, then one policy decision) and ends EXHAUSTED, never CRASHED,
\* under either policy and whatever the first reading draws.
C4_SingleIteration ==
    self.max_iterations = 1 =>
        /\ outcome # "CRASHED"
        /\ pc = "check" => ~(telemetry.y_position > 2 /\ telemetry.sensor_status = "RED")
        /\ pc = "done" =>
              /\ outcome = "EXHAUSTED"
              /\ self.iterations = 1
              /\ self.history_len = 1
              /\ last_op = "run"
              /\ self.use_constant_runner => command = Command(4, -1, "fwd")
              /\ ~self.use_constant_runner =>
                    /\ self.previous_dust = telemetry.dust_level
                    /\ self.previous_wind = telemetry.wind_speed
        /\ pc = "done" \/ ENABLED Next

\* C4 witness: the adaptive policy, one cycle done, loop ended
C4_Witness ==
    /\ self.max_iterations = 1
    /\ ~self.use_constant_runner
    /\ pc = "done"
    /\ outcome = "EXHAUSTED"
    /\ self.previous_dust = telemetry.dust_level
    /\ telemetry.dust_level > 0

\* C5: in run() an iteration ends the session CRASHED exactly when its reading
\* has y_position > 2 and the reading's status or previous_status is RED; the
\* loop then stops with no further command decided or applied; in every other
\* iteration the configured policy selects the next command.
C5_CrashTransition ==
    /\ [][pc = "check" /\ pc' # "check" =>
            IF /\ telemetry.y_position > 2
               /\ (telemetry.sensor_status = "RED" \/ self.previous_status = "RED")
            THEN /\ outcome' = "CRASHED"
                 /\ pc' = "done"
                 /\ command' = command
                 /\ self' = self
            ELSE /\ outcome' = "RUNNING"
                 /\ pc' = "while"
                 /\ last_op' = IF self.use_constant_runner
                               THEN "constant_runner" ELSE "send_command"]_vars
    /\ [][outcome' = "CRASHED" /\ outcome # "CRASHED" => pc = "check"]_vars
    /\ [](outcome = "CRASHED" => pc = "done" /\ ~ENABLED Next)

\* C5 witness: a session that crashed on a RED reading above the safe altitude
C5_Witness ==
    /\ outcome = "CRASHED"
    /\ telemetry.y_position > 2
    /\ telemetry.sensor_status = "RED"
    /\ self.iterations = self.history_len

\* C6: predict_crash returns true exactly when (clamp(y_position + altitude
\* delta, 0, 8) > 2 and (status RED or previous_status RED or red_cooldown > 0))
\* or (battery < 15 and speed > 0), for every numeric command; battery 10 with
\* speed 5 gives true.
C6_PredictCrashFormula ==
    last_op = "predict_crash" /\ command.non_numeric = {} =>
        LET sum       == self.y_position + command.altitude
            predicted == IF sum < 0 THEN 0 ELSE IF sum > 8 THEN 8 ELSE sum
            recentRed == \/ telemetry.sensor_status = "RED"
                         \/ self.previous_status = "RED"
                         \/ self.red_cooldown > 0
        IN  /\ crash_predicted <=>
                \/ predicted > 2 /\ recentRed
                \/ telemetry.battery < 15 * BatteryScale /\ command.speed > 0
            /\ telemetry.battery = 10 * BatteryScale /\ command.speed = 5
                  => crash_predicted

\* C6 witness: battery 10, speed 5, nothing RED, predicted altitude safe: true
C6_Witness ==
    /\ last_op = "predict_crash"
    /\ telemetry.battery = 10 * BatteryScale
    /\ command = Command(5, -1, "back")
    /\ telemetry.sensor_status = "GREEN"
    /\ self.previous_status = "GREEN"
    /\ self.red_cooldown = 0
    /\ crash_predicted

\* C7: send_command given a RED reading returns exactly {speed 0, altitude
\* delta -y_position, forward} and leaves red_cooldown = 5, at every battery
\* level, trend and prior cooldown: no later stage alters the command.
C7_RedForcesLanding ==
    last_op = "send_command" /\ telemetry.sensor_status = "RED" =>
        /\ command.speed = 0
        /\ command.altitude = 0 - self.y_position
        /\ command.movement = "fwd"
        /\ command.non_numeric = {}
        /\ self.red_cooldown = 5

\* C7 witness: a RED reading with battery in the power-saving band, dust
\* risen by more than 10, at altitude 3
C7_Witness ==
    /\ last_op = "send_command"
    /\ telemetry.sensor_status = "RED"
    /\ telemetry.battery = PowerSaving - 1
    /\ self.y_position = 3
    /\ command.altitude = -3
    /\ self.previous_status = "RED"

\* C8: every command the run loop decides (so every command applied after
\* the first iteration), under either policy, is one for which predict_crash,
\* on the reading and the session state at the time of the decision, returns
\* false: a command predicted to crash is replaced by the landing command
\* {speed 0, altitude delta -y_position, forward}, and the landing command is
\* itself never predicted to crash.
C8_AppliedCommandsPassPredictor ==
    [][pc = "check" /\ pc' = "while" =>
         LET landing  == [speed |-> 0, altitude |-> 0 - self.y_position,
                          movement |-> "fwd", non_numeric |-> {},
                          too_large |-> {}, is_dict |-> TRUE]
             \* send_command updates red_cooldown before it calls predict_crash
             deciding == [self EXCEPT !.red_cooldown = self'.red_cooldown]
         IN  /\ ~predict_crash(deciding, command', telemetry)
             /\ ~predict_crash(self, command', telemetry)
             /\ ~predict_crash(self', command', telemetry)
             /\ ~predict_crash(deciding, landing, telemetry)
             /\ self.use_constant_runner /\ crash_predicted' => command' = landing
             /\ self.use_constant_runner /\ ~crash_predicted' =>
                   command' = constant_runner(self.history_len)]_vars

\* C8 witness: the fixed-pattern command was predicted to crash (battery
\* below 15, speed 4) and the landing command took its place
C8_Witness ==
    /\ pc = "while"
    /\ last_op = "constant_runner"
    /\ crash_predicted
    /\ telemetry.battery < LowBatteryCrash
    /\ command = Command(0, 0 - self.y_position, "fwd")

\* C9: constant_runner returns a command fixed by the length of the history
\* alone -- length 0: {altitude +5, speed 4, forward}; odd: {altitude -1,
\* speed 4, forward}; positive even: {altitude +1, speed 4, forward} -- and
\* changes no field of the session.
C9_ConstantRunnerByLength ==
    /\ [](last_op = "constant_runner" =>
            /\ command.speed = 4
            /\ command.movement = "fwd"
            /\ command.non_numeric = {}
            /\ command.altitude =
                  IF self.history_len = 0 THEN 5
                  ELSE IF self.history_len % 2 = 1 THEN -1 ELSE 1)
    /\ [][last_op' = "constant_runner" =>
            /\ self' = self
            /\ telemetry' = telemetry]_vars

\* C9 witness: asked on a history of positive even length
C9_Witness ==
    /\ last_op = "constant_runner"
    /\ self.history_len = 2
    /\ command.altitude = 1

C11_PreviousTracksReading ==
    pc = "while" /\ self.iterations >= 1 /\ LoopCondition(self) =>
        /\ self.previous_status = telemetry.sensor_status
        /\ self.previous_dust = telemetry.dust_level
        /\ self.previous_wind = telemetry.wind_speed

\* C12: every command send_command returns for a reading with battery < 50
\* has speed <= 3 and altitude delta <= 2 - y_position; for a reading with
\* battery < 20 it is exactly {speed 0, altitude delta -y_position, forward},
\* whatever the sensor status, the trends and the cooldown.
C12_BatteryOverrides ==
    last_op = "send_command" =>
        /\ telemetry.battery < 50 * BatteryScale =>
              /\ command.speed <= 3
              /\ command.altitude <= 2 - self.y_position
        /\ telemetry.battery < 20 * BatteryScale =>
              /\ command.speed = 0
              /\ command.altitude = 0 - self.y_position
              /\ command.movement = "fwd"
              /\ command.non_numeric = {} /\ command.too_large = {} /\ command.is_dict

\* C12 witness: a GREEN reading with battery 15 (below 20, not below the
\* predictor's 15) at altitude 3, answered by the landing command
C12_Witness ==
    /\ last_op = "send_command"
    /\ telemetry.battery = 15 * BatteryScale
    /\ telemetry.sensor_status = "GREEN"
    /\ self.red_cooldown = 0
    /\ self.y_position = 3
    /\ command.speed = 0
    /\ command.altitude = -3

\* C13: red_cooldown is an integer in [0, 5] in every reachable state; a
\* send_command decision sets it to 5 exactly when the reading it consumes is
\* RED, otherwise it lowers it by exactly 1 when it is positive and leaves it
\* at 0 when it is 0; generate_telemetry, predict_crash and constant_runner
\* never change it.
C13_RedCooldownSteps ==
    /\ [](self.red_cooldown \in 0..5)
    /\ [][IF last_op' = "send_command"
          THEN /\ self'.red_cooldown = 5 <=> telemetry'.sensor_status = "RED"
               /\ telemetry'.sensor_status # "RED" =>
                     self'.red_cooldown =
                        IF self.red_cooldown > 0 THEN self.red_cooldown - 1 ELSE 0
          ELSE self'.red_cooldown = self.red_cooldown]_vars

\* C13 witness: a RED reading set the cooldown to 5 and the decision on the
\* next, YELLOW, reading lowered it to 4
C13_Witness ==
    /\ last_op = "send_command"
    /\ self.red_cooldown = 4
    /\ telemetry.sensor_status = "YELLOW"
    /\ self.iterations = 3

\* C15: when generate_telemetry hits an internal fault it returns a reading
\* with sensor_status RED, wind_speed 0, dust_level 0, gyroscope [0, 0, 0]
\* and the session's x_position, y_position and battery, and those three
\* values and telemetry_history are the same as before the call.
C15_FaultFreezesState ==
    [][last_op' = "generate_telemetry" /\ FaultLine(command') # 0 =>
         /\ telemetry'.sensor_status = "RED"
         /\ telemetry'.wind_speed = 0
         /\ telemetry'.dust_level = 0
         /\ telemetry'.gyroscope = <<0, 0, 0>>
         /\ telemetry'.x_position = self'.x_position
         /\ telemetry'.y_position = self'.y_position
         /\ telemetry'.battery = self'.battery
         /\ self'.x_position = self.x_position
         /\ self'.y_position = self.y_position
         /\ self'.battery = self.battery
         /\ self'.history_len = self.history_len]_vars

\* C16: generate_telemetry given a negative or non-numeric speed does what
\* it does for speed 0: x_position and total_distance are unchanged, the
\* battery drain and the wind step use speed 0, and a normal reading is
\* appended to the history; a non-numeric altitude delta leaves y_position
\* unchanged.
C16_InvalidInputsAsZero ==
    [][last_op' = "generate_telemetry" /\ command'.is_dict =>
         /\ "altitude" \in command'.non_numeric =>
               self'.y_position = self.y_position
         /\ "speed" \in command'.non_numeric \/ command'.speed < 0 =>
               LET zero == [command' EXCEPT !.speed = 0,
                                            !.non_numeric = @ \ {"speed"},
                                            !.too_large = @ \ {"speed"}]
               IN  /\ \E d \in EnvDraws :
                         generate_telemetry(self, zero, d) =
                            [self |-> self', telemetry |-> telemetry']
                   /\ self'.x_position = self.x_position
                   /\ self'.total_distance = self.total_distance
                   /\ "altitude" \notin command'.too_large =>
                         /\ self'.history_len = self.history_len + 1
                         /\ telemetry'.sensor_status \in {"GREEN", "YELLOW", "RED"}
                         /\ telemetry'.wind_speed >= 40 * EnvScale
                         /\ \E j \in JitterDraws :
                               self'.battery =
                                  Max(0, self.battery - (15 * self'.y_position + 24 * j))
                         /\ \E w \in WindDraws :
                               telemetry'.wind_speed =
                                  Min(100 * EnvScale,
                                      Max(40 * EnvScale, self.previous_wind + 5 * w))]_vars

\* C16 witness: the session had moved to x = 5; a command with speed -3 then
\* produced the second reading of the history and x stayed 5
C16_Witness ==
    /\ last_op = "generate_telemetry"
    /\ command = Command(-3, 1, "fwd")
    /\ self.x_position = 5
    /\ self.total_distance = 5
    /\ self.history_len = 2
    /\ telemetry.sensor_status = "GREEN"
    /\ self.battery < FullBattery - 48 * 5

\* C14: every reading appended to telemetry_history has the sensor_status
\* its own dust_level and wind_speed give, first match winning: RED if dust
\* > 80 or wind > 80; otherwise YELLOW if dust > 60 or wind > 60; otherwise
\* GREEN; values of exactly 60 or 80 do not trip the higher level.
C14_StatusFromThresholds ==
    [][self'.history_len = self.history_len + 1 =>
         LET dust == telemetry'.dust_level
             wind == telemetry'.wind_speed
         IN  /\ telemetry'.sensor_status =
                   IF dust > 80 * EnvScale \/ wind > 80 * EnvScale THEN "RED"
                   ELSE IF dust > 60 * EnvScale \/ wind > 60 * EnvScale THEN "YELLOW"
                   ELSE "GREEN"
             /\ dust <= 60 * EnvScale /\ wind <= 60 * EnvScale =>
                   telemetry'.sensor_status = "GREEN"
             /\ dust <= 80 * EnvScale /\ wind <= 80 * EnvScale =>
                   telemetry'.sensor_status # "RED"]_vars

\* C14 witness: a reading with wind exactly 80 and dust exactly 60 is YELLOW
C14_Witness ==
    /\ last_op = "generate_telemetry"
    /\ self.history_len = 2
    /\ telemetry.wind_speed = 80 * EnvScale
    /\ telemetry.dust_level = 60 * EnvScale
    /\ telemetry.sensor_status = "YELLOW"

\* C17: the second check of predict_crash (predicted altitude >
\* max_altitude) is unreachable: for every session state and every command
\* the predicted altitude is <= max_altitude, so no call returns true
\* because of that check.
C17_SecondCheckUnreachable ==
    last_op = "predict_crash" =>
        /\ PredictCrashReturn(self, command, telemetry) # 154
        /\ crash_predicted <=>
              PredictCrashReturn(self, command, telemetry) \in {151, 157, 161}
        /\ command.non_numeric = {} =>
              LET sum == self.y_position + command.altitude
              IN  (IF sum < 0 THEN 0 ELSE IF sum > 8 THEN 8 ELSE sum) <= 8

\* C17 witness: from altitude 8 a climb of 9 is predicted to end at 8, with
\* nothing RED and a full enough battery: the call returns false
C17_Witness ==
    /\ last_op = "predict_crash"
    /\ self.y_position = 8
    /\ command = Command(5, 9, "fwd")
    /\ telemetry.sensor_status = "GREEN"
    /\ telemetry.battery >= LowBatteryCrash
    /\ self.previous_status = "GREEN"
    /\ self.red_cooldown = 0
    /\ ~crash_predicted

\* C18: in any run(), under either policy, a session ends CRASHED only in
\* an iteration whose own reading is RED: whenever previous_status is RED at
\* the crash check the reading has y_position = 0, because the decision on
\* the RED reading was the landing command; under the fixed-pattern policy
\* previous_status never becomes RED.
C18_CrashOnlyOnOwnRed ==
    /\ outcome = "CRASHED" =>
          /\ telemetry.sensor_status = "RED"
          /\ telemetry.y_position > 2
    /\ pc = "check" /\ self.previous_status = "RED" => telemetry.y_position = 0
    /\ pc = "while" /\ self.previous_status = "RED" =>
          /\ command.speed = 0
          /\ command.altitude = 0 - self.y_position
    /\ self.use_constant_runner => self.previous_status # "RED"

\* C18 witness: at the crash check previous_status is RED and the reading is
\* not; the RED reading was taken at an altitude above 0 and the landing
\* command brought the drone to 0
C18_Witness ==
    /\ pc = "check"
    /\ self.previous_status = "RED"
    /\ telemetry.sensor_status # "RED"
    /\ telemetry.y_position = 0
    /\ command.altitude < 0
    /\ command.speed = 0

\* C19: in an adaptive-policy run(), once a reading has reported battery <
\* 50 without crashing, every later reading has y_position <= 2 (the safe
\* altitude), whatever statuses follow, so the session can no longer end
\* CRASHED.  The battery of successive readings never rises, so the reading
\* before a later one is itself below 50.
C19_NoCrashAfterPowerSaving ==
    /\ [][pc = "while" /\ pc' = "check" /\ telemetry.sensor_status # "NONE" =>
            telemetry'.battery <= telemetry.battery]_vars
    /\ [][/\ ~self.use_constant_runner
          /\ pc = "while" /\ pc' = "check"
          /\ telemetry.sensor_status # "NONE"
          /\ telemetry.battery < 50 * BatteryScale
          => /\ telemetry'.y_position <= 2
             /\ self'.y_position <= 2]_vars
    \* the reading before a crashing one (its battery is the crashing
    \* reading's plus the drain of the command applied) was not below 50
    /\ [](outcome = "CRASHED" /\ ~self.use_constant_runner =>
            \E j \in JitterDraws :
               telemetry.battery + 48 * command.speed + 15 * telemetry.y_position
                  + 24 * j >= 50 * BatteryScale)

\* C19 witness: a RED reading at altitude 2, two readings after the battery
\* fell below 50; the session goes on
C19_Witness ==
    /\ ~self.use_constant_runner
    /\ pc = "check"
    /\ telemetry.sensor_status = "RED"
    /\ telemetry.y_position = 2
    /\ telemetry.battery >= CriticalBattery
    /\ telemetry.battery + BatteryDrain(7, 8, 5) < PowerSaving

\* C20: once a reading has reported a critically low battery (below 20
\* under the adaptive policy, below 15 under the fixed-pattern policy) and
\* the session continues, the command decided on it and on every later
\* reading is the landing command (speed 0), every later reading has
\* y_position = 0, and x_position and total_distance never change again.
\* The battery of successive readings never rises, so every reading after a
\* critical one is critical.
C20_LandedOnCriticalBattery ==
    /\ [][pc = "while" /\ pc' = "check" /\ telemetry.sensor_status # "NONE" =>
            telemetry'.battery <= telemetry.battery]_vars
    /\ [][/\ telemetry.sensor_status # "NONE"
          /\ telemetry.battery <
                (IF self.use_constant_runner THEN 15 ELSE 20) * BatteryScale
          => /\ self'.x_position = self.x_position
             /\ self'.total_distance = self.total_distance
             /\ pc = "check" /\ pc' = "while" =>
                   /\ command'.speed = 0
                   /\ command'.altitude = 0 - self.y_position
             /\ pc = "while" =>
                   /\ command.speed = 0
                   /\ command' = command \/ pc' = "done"
             /\ pc = "while" /\ pc' = "check" =>
                   /\ telemetry'.y_position = 0
                   /\ self'.y_position = 0
                   /\ telemetry'.x_position = telemetry.x_position]_vars

\* C20 witness: the adaptive policy landed the drone from altitude 2 on a
\* reading below 20; the next reading is at altitude 0 with x unchanged
C20_Witness ==
    /\ ~self.use_constant_runner
    /\ pc = "check"
    /\ command.speed = 0
    /\ command.altitude = -2
    /\ telemetry.y_position = 0
    /\ telemetry.battery + BatteryDrain(0, 0, 5) < CriticalBattery
    /\ telemetry.battery >= LowBatteryCrash
    /\ self.x_position > 0

====
